---- MODULE Spec2Model ----
(***************************************************************************)
(* Model of the workflow scheduler (app/workflow_manager.py,               *)
(* app/scheduler_core.py, app/instanseg_tasks.py, app/utils/*.py,          *)
(* app/routers/*.py).                                                      *)
(*                                                                         *)
(* The program runs on one asyncio event loop.  Code between two           *)
(* suspension points runs without interleaving, so every action below is   *)
(* one such uninterrupted stretch:                                         *)
(*   - an HTTP handler (create_workflow, cancel_pending_job; the read      *)
(*     handlers do not change state and are operators);                    *)
(*   - one iteration of scheduler_loop (schedule_once has no await, and    *)
(*     scheduler_lock is never held across a suspension, so acquiring it   *)
(*     never suspends);                                                    *)
(*   - a stretch of a controller task execute_job between two awaits       *)
(*     (asyncio.to_thread always suspends; a wait for _model_lock          *)
(*     suspends when the lock is held).                                    *)
(* Ids made by uuid4 are fresh; the model numbers workflows and jobs in    *)
(* creation order.  Timestamps are modelled by whether they are set.       *)
(***************************************************************************)
EXTENDS Integers, Sequences, FiniteSets, TLC

\* app/scheduler_core.py: tuning params
MAX_WORKERS == 4
MAX_ACTIVE_USERS == 3

\* Bounds of the model
NumUsers == 2
MaxJobs == 2
MaxWorkflows == 2
MaxBranches == 2
MaxBranchLen == 2
MaxTiles == 1
\* Bounds of the specification of the tile planner (SpecGrid)
MaxDim == 4
MaxTileSize == 3
MaxNegative == 1
MaxGridTiles == 6
\* Bounds of the specification of the tile loop (SpecSeg)
MaxSegTiles == 2
MaxProps == 2
\* Bound of the specification of the max_tiles parameter (SpecPlan)
MaxMaxTiles == 7
\* Bound of the specification of the mask (SpecMask)
MaxCells == 2
\* Bound of the specification of the two caps (SpecCaps)
CapsMaxJobs == 5
\* Bound of the specification of the progress fields (SpecProgress)
MaxProgressTiles == 3

Users == 1..NumUsers
BranchIds == {"a", "b"}

\* app/models.py: enums
JobStatus == {"PENDING", "RUNNING", "SUCCEEDED", "FAILED", "CANCELLED"}
JobType == {"cell_segmentation", "tissue_mask"}

VARIABLES
    WORKFLOWS,        \* workflow id -> WorkflowInternal (sequence, id = index)
    JOBS,             \* job id -> JobInternal (sequence, id = index)
    BRANCH_JOBS,      \* dict in insertion order: sequence of [key, job_ids]
    running_jobs,     \* set of job ids
    active_users,     \* set of user ids
    tasks,            \* job id -> position of its controller task execute_job
    instanseg_model,  \* _instanseg_model is not None
    model_lock,       \* holder of _model_lock (0: free)
    model_waiters,    \* tasks waiting for _model_lock, in arrival order
    outputs,          \* files under outputs/: set of <<job id, file name>>
    scheduler_lock,   \* scheduler_lock is held
    unlocked_writes,  \* history: the writes made with scheduler_lock not held,
                      \* as <<function, what is written>>
    handles,          \* the open OpenSlide objects: set of <<job id, local name>>
    grid,             \* the locals of a call of compute_tile_grid
    seg               \* the locals of run_cell_segmentation: of its tile loop,
                      \* of its lines 201-225 without the cells, or of its
                      \* call of render_cell_visuals

vars == <<WORKFLOWS, JOBS, BRANCH_JOBS, running_jobs, active_users, tasks,
          instanseg_model, model_lock, model_waiters, outputs,
          scheduler_lock, unlocked_writes, handles, grid, seg>>

\* progress values are fractions <<numerator, denominator>> in lowest terms
RECURSIVE GCD(_, _)
GCD(a, b) == IF b = 0 THEN a ELSE GCD(b, a % b)

Frac(a, b) == <<a \div GCD(a, b), b \div GCD(a, b)>>

ZeroProgress == <<0, 1>>

FullProgress == <<1, 1>>

\* app/models.py JobInternal.__init__
JobInternal(wf_id, branch_id, user_id, job_type) ==
    [workflow_id |-> wf_id, branch_id |-> branch_id, user_id |-> user_id,
     job_type |-> job_type,
     status |-> "PENDING", progress |-> ZeroProgress,
     tiles_done |-> 0, tiles_total |-> 0, error |-> "None",
     started_at |-> FALSE, finished_at |-> FALSE]

\* app/models.py WorkflowInternal.__init__
WorkflowInternal(user_id) == [user_id |-> user_id, job_ids |-> <<>>]

\* The mutable program state as one record, so that a handler's sequential
\* code is a composition of operators on it.
State ==
    [WORKFLOWS |-> WORKFLOWS, JOBS |-> JOBS, BRANCH_JOBS |-> BRANCH_JOBS,
     running_jobs |-> running_jobs, active_users |-> active_users,
     tasks |-> tasks, instanseg_model |-> instanseg_model,
     model_lock |-> model_lock, model_waiters |-> model_waiters,
     outputs |-> outputs, scheduler_lock |-> scheduler_lock,
     unlocked_writes |-> unlocked_writes, handles |-> handles]

\* the program goes to state st
CommitProgram(st) ==
    /\ WORKFLOWS' = st.WORKFLOWS
    /\ JOBS' = st.JOBS
    /\ BRANCH_JOBS' = st.BRANCH_JOBS
    /\ running_jobs' = st.running_jobs
    /\ active_users' = st.active_users
    /\ tasks' = st.tasks
    /\ instanseg_model' = st.instanseg_model
    /\ model_lock' = st.model_lock
    /\ model_waiters' = st.model_waiters
    /\ outputs' = st.outputs
    /\ scheduler_lock' = st.scheduler_lock
    /\ unlocked_writes' = st.unlocked_writes
    /\ handles' = st.handles

Commit(st) ==
    /\ CommitProgram(st)
    /\ grid' = grid
    /\ seg' = seg

\* no call of compute_tile_grid is followed step by step
NoGrid == [pc |-> "none"]

\* no tile loop is followed with its data
NoSeg == [pc |-> "none"]

Init ==
    /\ grid = NoGrid
    /\ seg = NoSeg
    /\ WORKFLOWS = <<>>
    /\ JOBS = <<>>
    /\ BRANCH_JOBS = <<>>
    /\ running_jobs = {}
    /\ active_users = {}
    /\ tasks = <<>>
    /\ instanseg_model = FALSE
    /\ model_lock = 0
    /\ model_waiters = <<>>
    /\ outputs = {}
    /\ scheduler_lock = FALSE
    /\ unlocked_writes = {}
    /\ handles = {}

----------------------------------------------------------------------------
(* scheduler_lock (app/workflow_manager.py line 29).  It is never held at  *)
(* a suspension point, so "async with scheduler_lock" never waits: the     *)
(* lock is taken and given back inside one step.  Each function passes its *)
(* writes of a job status, of running_jobs and of active_users through     *)
(* Written, which records those made while the lock is not held.           *)

\* async with scheduler_lock: entry
LockAcquire(st) == [st EXCEPT !.scheduler_lock = TRUE]

\* async with scheduler_lock: exit
LockRelease(st) == [st EXCEPT !.scheduler_lock = FALSE]

\* function who has written the fields whats in state st
Written(st, who, whats) ==
    IF st.scheduler_lock THEN st
    ELSE [st EXCEPT !.unlocked_writes = @ \cup {<<who, w>> : w \in whats}]

----------------------------------------------------------------------------
(* app/workflow_manager.py                                                 *)

\* position of key in BRANCH_JOBS, 0 when absent
BranchIndex(bj, key) ==
    IF \E i \in 1..Len(bj) : bj[i].key = key
    THEN CHOOSE i \in 1..Len(bj) : bj[i].key = key
    ELSE 0

\* BRANCH_JOBS.setdefault(key, [])
SetDefault(bj, key) ==
    IF BranchIndex(bj, key) = 0
    THEN Append(bj, [key |-> key, job_ids |-> <<>>])
    ELSE bj

\* the inner loop of create_workflow: one JobInternal per job of the branch
RECURSIVE AddJobs(_, _, _, _, _)
AddJobs(st, wf_id, user_id, branch_id, jobs) ==
    IF jobs = <<>> THEN st
    ELSE LET jid == Len(st.JOBS) + 1
             key == <<wf_id, branch_id>>
             bi == BranchIndex(st.BRANCH_JOBS, key)
             st1 == [st EXCEPT
                       !.JOBS = Append(@, JobInternal(wf_id, branch_id, user_id, Head(jobs))),
                       !.tasks = Append(@, "none"),
                       !.WORKFLOWS[wf_id].job_ids = Append(@, jid),
                       !.BRANCH_JOBS[bi].job_ids = Append(@, jid)]
         IN AddJobs(st1, wf_id, user_id, branch_id, Tail(jobs))

\* the outer loop of create_workflow
RECURSIVE AddBranches(_, _, _, _)
AddBranches(st, wf_id, user_id, branches) ==
    IF branches = <<>> THEN st
    ELSE LET branch == Head(branches)
             st1 == [st EXCEPT !.BRANCH_JOBS =
                        SetDefault(@, <<wf_id, branch.branch_id>>)]
             st2 == AddJobs(st1, wf_id, user_id, branch.branch_id, branch.jobs)
         IN AddBranches(st2, wf_id, user_id, Tail(branches))

create_workflow(st, user_id, payload) ==
    LET wf_id == Len(st.WORKFLOWS) + 1
        st1 == [st EXCEPT !.WORKFLOWS = Append(@, WorkflowInternal(user_id))]
    IN AddBranches(st1, wf_id, user_id, payload)

\* get_job_for_user: the job id, or "KeyError"
get_job_for_user(st, user_id, job_id) ==
    IF job_id \notin 1..Len(st.JOBS) \/ st.JOBS[job_id].user_id # user_id
    THEN "KeyError"
    ELSE "ok"

\* get_workflow_for_user
get_workflow_for_user(st, user_id, workflow_id) ==
    IF workflow_id \notin 1..Len(st.WORKFLOWS)
         \/ st.WORKFLOWS[workflow_id].user_id # user_id
    THEN "KeyError"
    ELSE "ok"

\* cancel_pending_job without the test of the status
cancel_pending_job_NoStatusTest(st, user_id, job_id) ==
    IF get_job_for_user(st, user_id, job_id) = "KeyError"
    THEN [exc |-> "KeyError", st |-> st]
    ELSE [exc |-> "None",
          st |-> Written([st EXCEPT !.JOBS[job_id].status = "CANCELLED",
                                    !.JOBS[job_id].progress = ZeroProgress,
                                    !.JOBS[job_id].tiles_done = 0,
                                    !.JOBS[job_id].tiles_total = 0],
                         "cancel_pending_job", {"status"})]

\* cancel_pending_job that takes a RUNNING job as well
cancel_pending_job_AlsoRunning(st, user_id, job_id) ==
    IF get_job_for_user(st, user_id, job_id) = "KeyError"
    THEN [exc |-> "KeyError", st |-> st]
    ELSE IF st.JOBS[job_id].status \notin {"PENDING", "RUNNING"}
    THEN [exc |-> "ValueError", st |-> st]
    ELSE [exc |-> "None",
          st |-> Written([st EXCEPT !.JOBS[job_id].status = "CANCELLED",
                                    !.JOBS[job_id].progress = ZeroProgress,
                                    !.JOBS[job_id].tiles_done = 0,
                                    !.JOBS[job_id].tiles_total = 0],
                         "cancel_pending_job", {"status"})]

\* cancel_pending_job: [exc, st] where exc is "None", "KeyError" or "ValueError"
cancel_pending_job(st, user_id, job_id) ==
    IF get_job_for_user(st, user_id, job_id) = "KeyError"
    THEN [exc |-> "KeyError", st |-> st]
    ELSE IF st.JOBS[job_id].status # "PENDING"
    THEN [exc |-> "ValueError", st |-> st]
    ELSE [exc |-> "None",
          st |-> Written([st EXCEPT !.JOBS[job_id].status = "CANCELLED",
                                    !.JOBS[job_id].progress = ZeroProgress,
                                    !.JOBS[job_id].tiles_done = 0,
                                    !.JOBS[job_id].tiles_total = 0],
                         "cancel_pending_job", {"status"})]

----------------------------------------------------------------------------
(* app/routers/job_routes.py, app/routers/workflow_routes.py: the handlers *)
(* as functions of the state, user_id being the X-User-ID header.  A       *)
(* response is [code, body].                                               *)

Response(code, body) == [code |-> code, body |-> body]

\* GET /jobs/{job_id}
get_job_route(st, user_id, job_id) ==
    IF get_job_for_user(st, user_id, job_id) = "KeyError"
    THEN Response(404, "Job not found")
    ELSE Response(200, st.JOBS[job_id])

\* GET /jobs/workflow/{workflow_id}
list_jobs_for_workflow_route(st, user_id, workflow_id) ==
    IF get_workflow_for_user(st, user_id, workflow_id) = "KeyError"
    THEN Response(404, "Workflow not found")
    ELSE Response(200, [i \in 1..Len(st.WORKFLOWS[workflow_id].job_ids) |->
                            st.JOBS[st.WORKFLOWS[workflow_id].job_ids[i]]])

\* GET /workflows/{workflow_id}
get_workflow_route(st, user_id, workflow_id) ==
    IF get_workflow_for_user(st, user_id, workflow_id) = "KeyError"
    THEN Response(404, "Workflow not found")
    ELSE Response(200, st.WORKFLOWS[workflow_id])

\* POST /jobs/{job_id}/cancel
cancel_job_route(st, user_id, job_id) ==
    LET r == cancel_pending_job(st, user_id, job_id)
    IN IF r.exc = "KeyError" THEN Response(404, "Job not found")
       ELSE IF r.exc = "ValueError"
       THEN Response(400, "Only PENDING jobs can be cancelled")
       ELSE Response(200, r.st.JOBS[job_id])

\* GET /jobs/{job_id}/result
get_job_result(st, user_id, job_id) ==
    IF get_job_for_user(st, user_id, job_id) = "KeyError"
    THEN Response(404, "Job not found")
    ELSE IF st.JOBS[job_id].status \notin {"SUCCEEDED", "FAILED"}
    THEN Response(400, "Result is only available after job finishes.")
    ELSE IF <<job_id, "result.json">> \notin st.outputs
    THEN Response(404, "Result file not found")
    ELSE Response(200, <<job_id, "result.json">>)

\* GET /jobs/{job_id}/result/mask
get_mask(st, user_id, job_id) ==
    IF <<job_id, "mask.png">> \notin st.outputs
    THEN Response(404, "mask.png not found")
    ELSE Response(200, <<job_id, "mask.png">>)

\* GET /jobs/{job_id}/result/overlay
get_overlay(st, user_id, job_id) ==
    IF <<job_id, "overlay.png">> \notin st.outputs
    THEN Response(404, "overlay.png not found")
    ELSE Response(200, <<job_id, "overlay.png">>)

----------------------------------------------------------------------------
(* app/scheduler_core.py: the admission scheduler                          *)

\* index of the first PENDING job of a branch, 0 when it has none
FirstPending(jobs, job_ids) ==
    IF \E i \in 1..Len(job_ids) : jobs[job_ids[i]].status = "PENDING"
    THEN CHOOSE i \in 1..Len(job_ids) :
            /\ jobs[job_ids[i]].status = "PENDING"
            /\ \A k \in 1..(i - 1) : jobs[job_ids[k]].status # "PENDING"
    ELSE 0

\* Blocking that takes a CANCELLED predecessor as blocking too
Blocking_OnCancelled(jobs, job_ids, idx) ==
    \E k \in 1..(idx - 1) :
        jobs[job_ids[k]].status \in {"PENDING", "RUNNING", "CANCELLED"}

\* Blocking that looks for PENDING predecessors only
Blocking_OnlyPending(jobs, job_ids, idx) ==
    \E k \in 1..(idx - 1) : jobs[job_ids[k]].status = "PENDING"

\* Blocking that lets only SUCCEEDED predecessors through
Blocking_UnlessSucceeded(jobs, job_ids, idx) ==
    \E k \in 1..(idx - 1) : jobs[job_ids[k]].status # "SUCCEEDED"

\* "blocking": a job before position idx of the branch is PENDING or RUNNING
Blocking(jobs, job_ids, idx) ==
    \E k \in 1..(idx - 1) : jobs[job_ids[k]].status \in {"PENDING", "RUNNING"}

\* _first_runnable_job_ids_per_branch: the list "runnable", over the
\* branches bj[from..] in dict order
RECURSIVE FirstRunnableFrom(_, _, _)
FirstRunnableFrom(jobs, bj, from) ==
    IF from > Len(bj) THEN <<>>
    ELSE LET job_ids == bj[from].job_ids
             idx == FirstPending(jobs, job_ids)
             here == IF idx # 0 /\ ~Blocking(jobs, job_ids, idx)
                     THEN <<job_ids[idx]>>
                     ELSE <<>>
         IN here \o FirstRunnableFrom(jobs, bj, from + 1)

first_runnable_job_ids_per_branch(st) == FirstRunnableFrom(st.JOBS, st.BRANCH_JOBS, 1)

\* the user-limit test without the exemption of active users
UserLimitSkip_NoExemption(st, user_id) ==
    Cardinality(st.active_users) >= MAX_ACTIVE_USERS

\* the user-limit test of schedule_once (line 110): TRUE when the candidate
\* is skipped
UserLimitSkip(st, user_id) ==
    user_id \notin st.active_users /\ Cardinality(st.active_users) >= MAX_ACTIVE_USERS

\* the worker test that keeps one worker free
WorkersFull_OneLess(st) == Cardinality(st.running_jobs) >= MAX_WORKERS - 1

\* the worker test off by one
WorkersFull_OffByOne(st) == Cardinality(st.running_jobs) > MAX_WORKERS

\* the worker test of schedule_once (lines 96 and 103)
WorkersFull(st) == Cardinality(st.running_jobs) >= MAX_WORKERS

\* lines 117-123: start one job; asyncio.create_task leaves the task to
\* start at a later step of the event loop
StartJob(st, jid) ==
    Written([st EXCEPT !.JOBS[jid].status = "RUNNING",
                       !.JOBS[jid].progress = ZeroProgress,
                       !.running_jobs = @ \cup {jid},
                       !.active_users = @ \cup {st.JOBS[jid].user_id},
                       !.tasks[jid] = "spawned"],
            "schedule_once", {"status", "running_jobs", "active_users"})

\* the for loop of schedule_once over the candidates
RECURSIVE ScheduleLoop(_, _)
ScheduleLoop(st, candidates) ==
    IF candidates = <<>> THEN st
    ELSE IF WorkersFull(st) THEN st
    ELSE LET jid == Head(candidates)
         IN IF UserLimitSkip(st, st.JOBS[jid].user_id)
            THEN ScheduleLoop(st, Tail(candidates))
            ELSE IF st.JOBS[jid].status # "PENDING"
            THEN ScheduleLoop(st, Tail(candidates))
            ELSE ScheduleLoop(StartJob(st, jid), Tail(candidates))

schedule_once(st) ==
    IF WorkersFull(st) THEN st
    ELSE ScheduleLoop(st, first_runnable_job_ids_per_branch(st))

\* scheduler_loop lines 134-135: one pass, under scheduler_lock
scheduler_loop(st) == LockRelease(schedule_once(LockAcquire(st)))

----------------------------------------------------------------------------
(* app/scheduler_core.py: the job lifecycle controller execute_job         *)

\* lines 46-49: some job of the user has status RUNNING
StillRunningForUser(st, user_id) ==
    \E j \in 1..Len(st.JOBS) :
        st.JOBS[j].user_id = user_id /\ st.JOBS[j].status = "RUNNING"

\* lines 44-51: the release under scheduler_lock
Release(st, jid) ==
    LET st0 == LockAcquire(st)
        st1 == Written([st0 EXCEPT !.running_jobs = @ \ {jid}],
                       "execute_job", {"running_jobs"})
        st2 == IF ~StillRunningForUser(st1, st1.JOBS[jid].user_id)
               THEN Written([st1 EXCEPT !.active_users = @ \ {st1.JOBS[jid].user_id}],
                            "execute_job", {"active_users"})
               ELSE st1
    IN LockRelease(st2)

\* lines 39-51: the finally block.  save_job_progress(job) comes before the
\* release; when it raises (save_ok = FALSE) the exception leaves the
\* finally block and the task ends with it.
Finally(st, jid, save_ok) ==
    LET st1 == [st EXCEPT !.JOBS[jid].finished_at = TRUE]
    IN IF save_ok
       THEN [Release(st1, jid) EXCEPT !.tasks[jid] = "returned"]
       ELSE [st1 EXCEPT !.tasks[jid] = "raised"]

\* the success path without the write of progress
Succeed_KeepsProgress(st, jid, save_ok) ==
    Finally(Written([st EXCEPT !.JOBS[jid].status = "SUCCEEDED"],
                    "execute_job", {"status"}), jid, save_ok)

\* lines 32-33, then finally
Succeed(st, jid, save_ok) ==
    Finally(Written([st EXCEPT !.JOBS[jid].status = "SUCCEEDED",
                               !.JOBS[jid].progress = FullProgress],
                    "execute_job", {"status"}), jid, save_ok)

\* lines 35-37, then finally
Fail(st, jid, msg, save_ok) ==
    Finally(Written([st EXCEPT !.JOBS[jid].status = "FAILED",
                               !.JOBS[jid].error = msg],
                    "execute_job", {"status"}), jid, save_ok)

----------------------------------------------------------------------------
(* app/instanseg_tasks.py: the job runtime.  env is what the environment   *)
(* answers during the stretch: whether the slide file exists, how many     *)
(* tiles the plan has, and which calls raise.  handles follows the         *)
(* OpenSlide objects a job has opened and not closed.                      *)

\* name = openslide.OpenSlide(wsi_path)
Open(st, jid, name) == [st EXCEPT !.handles = @ \cup {<<jid, name>>}]

\* name.close()
Close(st, jid, name) == [st EXCEPT !.handles = @ \ {<<jid, name>>}]

Env ==
    [wsi_exists : BOOLEAN,        \* os.path.exists(wsi_path)
     n_tiles : 0..MaxTiles,       \* len(tiles) after truncation
     init_ok : BOOLEAN,           \* InstanSeg(...) returns
     analyzer_ok : BOOLEAN,       \* _segment_tile returns
     progress_ok : BOOLEAN,       \* save_job_progress in update_job_progress
     post : {"ok", "render_raises", "save_result_raises"},
     final_ok : BOOLEAN]          \* save_job_progress in the finally block

\* run_cell_segmentation lines 227-258: after the tile loop
AfterTiles(st, jid, env) ==
    LET closed == Close(st, jid, "slide")
        opened == Open(closed, jid, "slide2")
    IN IF env.post = "render_raises"
       THEN Fail(opened, jid, "PersistenceFailure", env.final_ok)
       ELSE LET st1 == [Close(opened, jid, "slide2") EXCEPT !.outputs =
                           @ \cup {<<jid, "mask.png">>, <<jid, "overlay.png">>}]
            IN IF env.post = "save_result_raises"
               THEN Fail(st1, jid, "PersistenceFailure", env.final_ok)
               ELSE Succeed([st1 EXCEPT !.outputs = @ \cup {<<jid, "result.json">>}],
                            jid, env.final_ok)

\* the head of the for loop (line 220): suspend in _segment_tile for the
\* next tile, or leave the loop
TileLoop(st, jid, env) ==
    IF st.JOBS[jid].tiles_done < st.JOBS[jid].tiles_total
    THEN [st EXCEPT !.tasks[jid] = "await_tile"]
    ELSE AfterTiles(st, jid, env)

\* lines 221-225: _segment_tile has returned or raised
TileBody(st, jid, env) ==
    IF ~env.analyzer_ok
    THEN Fail(st, jid, "AnalyzerFailure", env.final_ok)
    ELSE LET done == st.JOBS[jid].tiles_done + 1
             total == st.JOBS[jid].tiles_total
             \* update_job_progress (app/utils/progress.py)
             st1 == [st EXCEPT !.JOBS[jid].tiles_done = done,
                               !.JOBS[jid].progress =
                                   IF total > 0 THEN Frac(done, total)
                                   ELSE ZeroProgress]
         IN IF ~env.progress_ok
            THEN Fail(st1, jid, "PersistenceFailure", env.final_ok)
            ELSE TileLoop(st1, jid, env)

\* get_instanseg_model lines 35-44, up to its first suspension
GetModel(st, jid, env) ==
    IF st.instanseg_model
    THEN TileLoop(st, jid, env)
    ELSE IF st.model_lock = 0 /\ st.model_waiters = <<>>
    THEN [st EXCEPT !.model_lock = jid, !.tasks[jid] = "await_init"]
    ELSE [st EXCEPT !.model_waiters = Append(@, jid),
                    !.tasks[jid] = "await_model_lock"]

\* get_instanseg_model line 44: asyncio.to_thread(_init) is over
InitDone(st, jid, env) ==
    LET st1 == [st EXCEPT !.model_lock = 0]
    IN IF env.init_ok
       THEN TileLoop([st1 EXCEPT !.instanseg_model = TRUE], jid, env)
       ELSE Fail(st1, jid, "AnalyzerFailure", env.final_ok)

\* the lock acquired after a wait, with no second test of _instanseg_model
LockAcquired_NoRecheck(st, jid, env) ==
    [st EXCEPT !.model_waiters = Tail(@), !.model_lock = jid,
               !.tasks[jid] = "await_init"]

\* get_instanseg_model lines 38-46: _model_lock acquired after a wait
LockAcquired(st, jid, env) ==
    LET st1 == [st EXCEPT !.model_waiters = Tail(@)]
    IN IF ~st1.instanseg_model
       THEN [st1 EXCEPT !.model_lock = jid, !.tasks[jid] = "await_init"]
       ELSE TileLoop(st1, jid, env)

\* run_cell_segmentation lines 192-216
run_cell_segmentation(st, jid, env) ==
    IF ~env.wsi_exists
    THEN Fail(st, jid, "WSI not found", env.final_ok)
    ELSE GetModel([Open(st, jid, "slide") EXCEPT !.JOBS[jid].tiles_total = env.n_tiles],
                  jid, env)

\* run_tissue_mask: no await, so it runs to its end in one stretch.  The
\* slide is open from line 276 to line 313: reading and saving the images
\* (post = "render_raises") comes before slide.close(),
\* save_segmentation_result after it.
run_tissue_mask(st, jid, env) ==
    IF ~env.wsi_exists
    THEN Fail(st, jid, "WSI not found", env.final_ok)
    ELSE LET opened == Open(st, jid, "slide")
             closed == Close(opened, jid, "slide")
         IN IF env.post = "render_raises"
            THEN Fail(opened, jid, "PersistenceFailure", env.final_ok)
            ELSE IF env.post = "save_result_raises"
            THEN Fail(closed, jid, "PersistenceFailure", env.final_ok)
            ELSE Succeed([closed EXCEPT !.outputs = @ \cup {<<jid, "result.json">>}],
                         jid, env.final_ok)

\* run_job_body
run_job_body(st, jid, env) ==
    IF st.JOBS[jid].job_type = "cell_segmentation"
    THEN run_cell_segmentation(st, jid, env)
    ELSE run_tissue_mask(st, jid, env)

\* execute_job lines 26-31: the task starts
execute_job(st, jid, env) ==
    run_job_body([st EXCEPT !.JOBS[jid].started_at = TRUE], jid, env)

----------------------------------------------------------------------------
(* Inputs                                                                  *)

SeqsUpTo(S, n) == UNION {[1..k -> S] : k \in 1..n}

\* WorkflowCreate payloads: branches of jobs, each job given by its type.
\* Two branches of one payload may name the same branch_id, and the list of
\* jobs of a branch may be empty (List[JobCreate] has no minimal length).
Branches == [branch_id : BranchIds, jobs : {<<>>} \cup SeqsUpTo(JobType, MaxBranchLen)]

Payloads == {p \in SeqsUpTo(Branches, MaxBranches) : p[1].branch_id = "a"}

RECURSIVE PayloadJobs(_)
PayloadJobs(p) == IF p = <<>> THEN 0 ELSE Len(Head(p).jobs) + PayloadJobs(Tail(p))

\* the answers of the environment that a stretch can read
EnvStart == {e \in Env : e.init_ok /\ e.analyzer_ok /\ e.progress_ok}

EnvModel == {e \in Env : e.wsi_exists /\ e.n_tiles = 0 /\ e.analyzer_ok /\ e.progress_ok}

EnvTile == {e \in Env : e.wsi_exists /\ e.n_tiles = 0 /\ e.init_ok}

----------------------------------------------------------------------------
(* Actions                                                                 *)

\* POST /workflows
CreateWorkflow(user_id, payload) ==
    /\ Len(WORKFLOWS) < MaxWorkflows
    /\ Len(JOBS) + PayloadJobs(payload) <= MaxJobs
    /\ Commit(create_workflow(State, user_id, payload))

\* POST /jobs/{job_id}/cancel; on KeyError or ValueError nothing changes
CancelJob(user_id, job_id) ==
    Commit(cancel_pending_job(State, user_id, job_id).st)

\* one iteration of scheduler_loop
SchedulerPass == Commit(scheduler_loop(State))

\* the task made by asyncio.create_task(execute_job(job.id)) starts
ExecuteJobStart(jid) ==
    /\ tasks[jid] = "spawned"
    /\ \E env \in EnvStart : Commit(execute_job(State, jid, env))

\* the model constructor run by asyncio.to_thread is over
ModelInitDone(jid) ==
    /\ tasks[jid] = "await_init"
    /\ \E env \in EnvModel : Commit(InitDone(State, jid, env))

\* a task waiting for _model_lock gets it: the lock is free and the task is
\* the first waiter
ModelLockAcquired(jid) ==
    /\ tasks[jid] = "await_model_lock"
    /\ model_lock = 0
    /\ Head(model_waiters) = jid
    /\ \E env \in EnvModel : Commit(LockAcquired(State, jid, env))

\* _segment_tile, run by asyncio.to_thread, is over
TileDone(jid) ==
    /\ tasks[jid] = "await_tile"
    /\ \E env \in EnvTile : Commit(TileBody(State, jid, env))

JobIds == 1..Len(JOBS)

Next ==
    \/ \E u \in Users, p \in Payloads : CreateWorkflow(u, p)
    \/ \E u \in Users, j \in 1..(Len(JOBS) + 1) : CancelJob(u, j)
    \/ SchedulerPass
    \/ \E j \in JobIds : ExecuteJobStart(j)
    \/ \E j \in JobIds : ModelInitDone(j)
    \/ \E j \in JobIds : ModelLockAcquired(j)
    \/ \E j \in JobIds : TileDone(j)

Spec == Init /\ [][Next]_vars

----------------------------------------------------------------------------
(* The two caps need more jobs and users than Spec has: SpecCaps starts    *)
(* after four POST /workflows of one single-job branch each, made before   *)
(* any of the jobs was admitted, and goes on with the actions of Spec.     *)
(* Its inputs are narrower: every slide file exists, one user submits one  *)
(* more single-job workflow, and jobs are cancelled by their owners.       *)

EmptyState ==
    [WORKFLOWS |-> <<>>, JOBS |-> <<>>, BRANCH_JOBS |-> <<>>,
     running_jobs |-> {}, active_users |-> {}, tasks |-> <<>>,
     instanseg_model |-> FALSE, model_lock |-> 0, model_waiters |-> <<>>,
     outputs |-> {}, scheduler_lock |-> FALSE, unlocked_writes |-> {},
     handles |-> {}]

SinglePayload(job_type) == <<[branch_id |-> "a", jobs |-> <<job_type>>]>>

\* the first workflows, in submission order: [user, job type]
Sub(user_id, job_type) == [user_id |-> user_id, job_type |-> job_type]

\* 5 single-job workflows of 5 users
FiveUsers == [u \in 1..5 |-> Sub(u, "tissue_mask")]

\* 6 single-job branches of one user, in 6 workflows
SixOfOneUser == [i \in 1..6 |-> Sub(1, "tissue_mask")]

CapsWorkloads ==
    {<<Sub(1, "tissue_mask"), Sub(2, "tissue_mask"), Sub(3, "tissue_mask"),
       Sub(4, "tissue_mask"), Sub(1, "tissue_mask")>>,
     <<Sub(1, "cell_segmentation"), Sub(1, "tissue_mask"), Sub(1, "tissue_mask"),
       Sub(1, "tissue_mask")>>,
     FiveUsers, SixOfOneUser}

\* the user who submits one more workflow while the first ones are served
CapsLateUsers == {1}

RECURSIVE Submit(_, _)
Submit(st, subs) ==
    IF subs = <<>> THEN st
    ELSE Submit(create_workflow(st, Head(subs).user_id,
                                SinglePayload(Head(subs).job_type)),
                Tail(subs))

InitCaps ==
    \E w \in CapsWorkloads :
        LET st == Submit(EmptyState, w)
        IN /\ grid = NoGrid
           /\ seg = NoSeg
           /\ WORKFLOWS = st.WORKFLOWS
           /\ JOBS = st.JOBS
           /\ BRANCH_JOBS = st.BRANCH_JOBS
           /\ running_jobs = st.running_jobs
           /\ active_users = st.active_users
           /\ tasks = st.tasks
           /\ instanseg_model = st.instanseg_model
           /\ model_lock = st.model_lock
           /\ model_waiters = st.model_waiters
           /\ outputs = st.outputs
           /\ scheduler_lock = st.scheduler_lock
           /\ unlocked_writes = st.unlocked_writes
           /\ handles = st.handles

CreateWorkflowCaps(user_id, payload) ==
    /\ Len(JOBS) + PayloadJobs(payload) <= CapsMaxJobs
    /\ Commit(create_workflow(State, user_id, payload))

\* of the calls that raise PersistenceFailure, save_segmentation_result
\* stands for all: execute_job treats them alike
EnvStartCaps == {e \in EnvStart : e.wsi_exists /\ e.post # "render_raises"}

ExecuteJobStartCaps(jid) ==
    /\ tasks[jid] = "spawned"
    /\ \E env \in EnvStartCaps : Commit(execute_job(State, jid, env))

NextCaps ==
    \/ \E u \in CapsLateUsers, t \in JobType : CreateWorkflowCaps(u, SinglePayload(t))
    \/ \E j \in JobIds : CancelJob(JOBS[j].user_id, j)
    \/ SchedulerPass
    \/ \E j \in JobIds : ExecuteJobStartCaps(j)
    \/ \E j \in JobIds : ModelInitDone(j)
    \/ \E j \in JobIds : ModelLockAcquired(j)
    \/ \E j \in JobIds : TileDone(j)

SpecCaps == InitCaps /\ [][NextCaps]_vars

----------------------------------------------------------------------------
(* Progress of the PENDING jobs needs fairness: SpecLive starts after four *)
(* POST /workflows of four users, one single-job branch each, and takes    *)
(* the steps of the event loop with weak fairness: scheduler_loop makes a  *)
(* pass every SCHEDULER_INTERVAL, a task made by create_task starts, and   *)
(* the calls run by asyncio.to_thread come back.  The HTTP requests are    *)
(* not fair: no user has to cancel.                                        *)

LiveWorkload ==
    <<Sub(1, "cell_segmentation"), Sub(2, "cell_segmentation"),
      Sub(3, "tissue_mask"), Sub(4, "tissue_mask")>>

LiveJobs == 1..Len(LiveWorkload)

\* the program is in state st
Start(st) ==
    /\ WORKFLOWS = st.WORKFLOWS
    /\ JOBS = st.JOBS
    /\ BRANCH_JOBS = st.BRANCH_JOBS
    /\ running_jobs = st.running_jobs
    /\ active_users = st.active_users
    /\ tasks = st.tasks
    /\ instanseg_model = st.instanseg_model
    /\ model_lock = st.model_lock
    /\ model_waiters = st.model_waiters
    /\ outputs = st.outputs
    /\ scheduler_lock = st.scheduler_lock
    /\ unlocked_writes = st.unlocked_writes
    /\ handles = st.handles

InitLive == Start(Submit(EmptyState, LiveWorkload)) /\ grid = NoGrid /\ seg = NoSeg

NextServe ==
    \/ \E j \in JobIds : CancelJob(JOBS[j].user_id, j)
    \/ SchedulerPass
    \/ \E j \in JobIds : ExecuteJobStart(j)
    \/ \E j \in JobIds : ModelInitDone(j)
    \/ \E j \in JobIds : ModelLockAcquired(j)
    \/ \E j \in JobIds : TileDone(j)

\* a step of the event loop that is not an HTTP request
ServeStep ==
    \/ SchedulerPass
    \/ \E j \in JobIds : ExecuteJobStart(j)
    \/ \E j \in JobIds : ModelInitDone(j)
    \/ \E j \in JobIds : ModelLockAcquired(j)
    \/ \E j \in JobIds : TileDone(j)

\* Every job takes each of its steps once and a pass changes the state only
\* by admitting a job, so only finitely many of these steps change the
\* state: weak fairness of their disjunction is weak fairness of each one.
FairLive == WF_vars(ServeStep)

SpecLive == InitLive /\ [][NextServe]_vars /\ FairLive

----------------------------------------------------------------------------
(* A branch of three jobs: SpecChain starts after user 1 has posted one    *)
(* workflow whose branch "a" has three jobs and user 2 one workflow of one *)
(* job, and serves them with the steps of SpecLive (no fairness).          *)

Post(user_id, payload) == [user_id |-> user_id, payload |-> payload]

ChainPosts ==
    <<Post(1, <<[branch_id |-> "a",
                 jobs |-> <<"cell_segmentation", "tissue_mask", "tissue_mask">>]>>),
      Post(2, SinglePayload("cell_segmentation"))>>

RECURSIVE SubmitPosts(_, _)
SubmitPosts(st, posts) ==
    IF posts = <<>> THEN st
    ELSE SubmitPosts(create_workflow(st, Head(posts).user_id, Head(posts).payload),
                     Tail(posts))

InitChain == Start(SubmitPosts(EmptyState, ChainPosts)) /\ grid = NoGrid /\ seg = NoSeg

SpecChain == InitChain /\ [][NextServe]_vars

----------------------------------------------------------------------------
(* The progress fields over several tiles: SpecProgress starts after three *)
(* POST /workflows of one single-job branch each, two cell segmentations   *)
(* of two users and one tissue mask, and serves them with the steps of     *)
(* SpecLive (no fairness); the tile lists have up to MaxProgressTiles      *)
(* tiles.                                                                  *)

ProgressWorkload ==
    <<Sub(1, "cell_segmentation"), Sub(2, "cell_segmentation"),
      Sub(1, "tissue_mask")>>

InitProgress == Start(Submit(EmptyState, ProgressWorkload)) /\ grid = NoGrid /\ seg = NoSeg

\* the answers read by the first stretch of a task, with longer tile lists
EnvStartProgress ==
    [wsi_exists : BOOLEAN, n_tiles : 0..MaxProgressTiles, init_ok : {TRUE},
     analyzer_ok : {TRUE}, progress_ok : {TRUE},
     post : {"ok", "render_raises", "save_result_raises"}, final_ok : BOOLEAN]

ExecuteJobStartProgress(jid) ==
    /\ tasks[jid] = "spawned"
    /\ \E env \in EnvStartProgress : Commit(execute_job(State, jid, env))

NextProgress ==
    \/ \E j \in JobIds : CancelJob(JOBS[j].user_id, j)
    \/ SchedulerPass
    \/ \E j \in JobIds : ExecuteJobStartProgress(j)
    \/ \E j \in JobIds : ModelInitDone(j)
    \/ \E j \in JobIds : ModelLockAcquired(j)
    \/ \E j \in JobIds : TileDone(j)

SpecProgress == InitProgress /\ [][NextProgress]_vars

----------------------------------------------------------------------------
(* app/utils/tiles.py: compute_tile_grid, followed step by step.  grid     *)
(* holds the arguments and the locals of the call; a tile is <<x, y, w, h>>.*)
(* With tile_size <= overlap the inner loop has no end: the model stops    *)
(* following it after MaxGridTiles tiles.                                  *)

Min(a, b) == IF a < b THEN a ELSE b

\* the clip without the min
Clip_None(tile_size, room) == tile_size

\* lines 16 and 18: min(tile_size, height - y), min(tile_size, width - x)
Clip(tile_size, room) == Min(tile_size, room)

\* a step that is the tile size, the overlap left out
Stride_NoOverlap(g) == g.tile_size

\* lines 20 and 21: tile_size - overlap
Stride(g) == g.tile_size - g.overlap

\* lines 12-13: the call starts
GridCall(width, height, tile_size, overlap) ==
    [width |-> width, height |-> height, tile_size |-> tile_size,
     overlap |-> overlap, tiles |-> <<>>, x |-> 0, y |-> 0, h |-> 0,
     pc |-> "while_y"]

\* lines 14-16 and 22: the test of the outer loop
GridOuter ==
    /\ grid.pc = "while_y"
    /\ grid' = IF grid.y < grid.height
               THEN [grid EXCEPT !.x = 0,
                                 !.h = Clip(grid.tile_size, grid.height - grid.y),
                                 !.pc = "while_x"]
               ELSE [grid EXCEPT !.pc = "return"]
    /\ UNCHANGED <<WORKFLOWS, JOBS, BRANCH_JOBS, running_jobs, active_users, tasks,
                   instanseg_model, model_lock, model_waiters, outputs,
                   scheduler_lock, unlocked_writes, handles, seg>>

\* lines 17-21: the test of the inner loop, and its body or line 21
GridInner ==
    /\ grid.pc = "while_x"
    /\ Stride(grid) > 0 \/ Len(grid.tiles) < MaxGridTiles
    /\ grid' = IF grid.x < grid.width
               THEN [grid EXCEPT
                       !.tiles = Append(@, <<grid.x, grid.y,
                                             Clip(grid.tile_size, grid.width - grid.x),
                                             grid.h>>),
                       !.x = @ + Stride(grid)]
               ELSE [grid EXCEPT !.y = @ + Stride(grid), !.pc = "while_y"]
    /\ UNCHANGED <<WORKFLOWS, JOBS, BRANCH_JOBS, running_jobs, active_users, tasks,
                   instanseg_model, model_lock, model_waiters, outputs,
                   scheduler_lock, unlocked_writes, handles, seg>>

\* "valid geometry": tile_size > overlap >= 0 and tile_size >= 1
ValidGeometry(tile_size, overlap) ==
    tile_size > overlap /\ overlap >= 0 /\ tile_size >= 1

\* the number of positions 0, s, 2s, ... below extent
Positions(extent, s) == (extent + s - 1) \div s

\* the list of the claim: y = 0, s, 2s, ... while y < height, and for each y
\* x = 0, s, 2s, ... while x < width, x varying fastest
ExpectedPlan(width, height, tile_size, overlap) ==
    LET s == tile_size - overlap
        nx == Positions(width, s)
        ny == Positions(height, s)
    IN [k \in 1..(nx * ny) |->
           LET x == ((k - 1) % nx) * s
               y == ((k - 1) \div nx) * s
           IN <<x, y, Min(tile_size, width - x), Min(tile_size, height - y)>>]

\* the arguments of the calls: every raster with every valid geometry, every
\* non-empty raster with every other geometry, and plan(100, 40, 30, 10)
GridArgs ==
    {a \in (0..MaxDim) \X (0..MaxDim) \X ((-MaxNegative)..MaxTileSize) \X ((-MaxNegative)..MaxTileSize) :
        ValidGeometry(a[3], a[4]) \/ (a[1] >= 1 /\ a[2] >= 1)}
    \cup {<<100, 40, 30, 10>>}

InitGrid ==
    /\ Start(EmptyState)
    /\ seg = NoSeg
    /\ \E a \in GridArgs : grid = GridCall(a[1], a[2], a[3], a[4])

NextGrid == GridOuter \/ GridInner

SpecGrid == InitGrid /\ [][NextGrid]_vars

----------------------------------------------------------------------------
(* app/instanseg_tasks.py: the data of the tile loop of                    *)
(* run_cell_segmentation (lines 217-225) and of _segment_tile.  seg holds  *)
(* the locals tiles, idx and all_cells, and props, what regionprops gave   *)
(* for each tile processed so far: a list of bbox <<minr, minc, maxr,      *)
(* maxc>> in tile-local rows and columns.  area_pixels, copied from the    *)
(* region, is left out.                                                    *)

\* a cell record that takes the row bounds for x and the column bounds for y
Cell_RowsAsX(x, y, bbox, tile_index) ==
    [bbox |-> [x_min |-> x + bbox[1], y_min |-> y + bbox[2],
               x_max |-> x + bbox[3], y_max |-> y + bbox[4]],
     tile_index |-> tile_index,
     tile_origin |-> <<x, y>>]

\* _segment_tile lines 118-132: the record of one region
Cell(x, y, bbox, tile_index) ==
    [bbox |-> [x_min |-> x + bbox[2], y_min |-> y + bbox[1],
               x_max |-> x + bbox[4], y_max |-> y + bbox[3]],
     tile_index |-> tile_index,
     tile_origin |-> <<x, y>>]

\* _segment_tile lines 89 and 116-135: the list cells
segment_tile(tile_box, tile_index, regions) ==
    [k \in 1..Len(regions) |->
        Cell(tile_box[1], tile_box[2], regions[k], tile_index)]

\* lines 217-220: the loop starts
SegCall(tiles) ==
    [tiles |-> tiles, idx |-> 0, all_cells |-> <<>>, props |-> <<>>, pc |-> "for"]

\* the bboxes regionprops can give on a tile of w columns and h rows
BBoxes(w, h) ==
    {b \in (0..h) \X (0..w) \X (0..h) \X (0..w) : b[1] < b[3] /\ b[2] < b[4]}

\* lines 220-222: one turn of the loop, or its end
SegTile ==
    /\ seg.pc = "for"
    /\ IF seg.idx < Len(seg.tiles)
       THEN LET tbox == seg.tiles[seg.idx + 1]
            IN \E regions \in {<<>>} \cup SeqsUpTo(BBoxes(tbox[3], tbox[4]), MaxProps) :
                   seg' = [seg EXCEPT
                             !.all_cells = @ \o segment_tile(tbox, seg.idx, regions),
                             !.props = Append(@, regions),
                             !.idx = @ + 1]
       ELSE seg' = [seg EXCEPT !.pc = "done"]
    /\ UNCHANGED <<WORKFLOWS, JOBS, BRANCH_JOBS, running_jobs, active_users, tasks,
                   instanseg_model, model_lock, model_waiters, outputs,
                   scheduler_lock, unlocked_writes, handles, grid>>

\* line 211: tiles[:max_tiles]; a negative max_tiles counts from the end
Truncate(tiles, max_tiles) ==
    IF max_tiles >= 0
    THEN SubSeq(tiles, 1, Min(max_tiles, Len(tiles)))
    ELSE SubSeq(tiles, 1, Len(tiles) + max_tiles)

\* the tile lists of the loop: plans of compute_tile_grid, cut to at most
\* MaxSegTiles tiles
SegTileLists ==
    {Truncate(ExpectedPlan(3, 2, 2, 1), m) : m \in 0..MaxSegTiles}
    \cup {Truncate(ExpectedPlan(3, 1, 2, 0), m) : m \in 0..MaxSegTiles}
    \cup {Truncate(ExpectedPlan(2, 4, 3, 1), m) : m \in 0..MaxSegTiles}

InitSeg ==
    /\ Start(EmptyState)
    /\ grid = NoGrid
    /\ \E tiles \in SegTileLists : seg = SegCall(tiles)

NextSeg == SegTile

SpecSeg == InitSeg /\ [][NextSeg]_vars

----------------------------------------------------------------------------
(* app/instanseg_tasks.py: run_cell_segmentation lines 201-225, from the   *)
(* read of max_tiles to the end of the tile loop, the cells left out.  seg *)
(* holds the planner's list (plan), the value of params["max_tiles"] (raw) *)
(* and the locals max_tiles, tiles and idx, the field tiles_total of the   *)
(* job, and processed, the tiles given to _segment_tile so far.  A value   *)
(* that may be None is a sequence: <<>> for None, <<m>> for the integer m. *)

None == <<>>

Some(m) == <<m>>

\* the truth value of a parameter in an if: None and 0 are false
Truthy(v) == v # None /\ v[1] # 0

\* line 202: int(max_tiles) if max_tiles else None
MaxTilesParam(raw) == IF Truthy(raw) THEN raw ELSE None

\* lines 209-211: the list tiles
PlanTiles(plan, max_tiles) ==
    IF Truthy(max_tiles) THEN Truncate(plan, max_tiles[1]) ELSE plan

\* lines 201-202: the call has read its parameters
PlanCall(plan, raw) == [plan |-> plan, raw |-> raw, pc |-> "params"]

\* lines 202-217: from the parameters to the head of the loop
PlanStart ==
    /\ seg.pc = "params"
    /\ LET max_tiles == MaxTilesParam(seg.raw)
           tiles == PlanTiles(seg.plan, max_tiles)
       IN seg' = [plan |-> seg.plan, raw |-> seg.raw, max_tiles |-> max_tiles,
                  tiles |-> tiles, tiles_total |-> Len(tiles), idx |-> 0,
                  processed |-> <<>>, pc |-> "loop"]
    /\ UNCHANGED <<WORKFLOWS, JOBS, BRANCH_JOBS, running_jobs, active_users, tasks,
                   instanseg_model, model_lock, model_waiters, outputs,
                   scheduler_lock, unlocked_writes, handles, grid>>

\* lines 220-225: one turn of the loop, or its end
PlanTile ==
    /\ seg.pc = "loop"
    /\ seg' = IF seg.idx < Len(seg.tiles)
              THEN [seg EXCEPT !.processed = Append(@, seg.tiles[seg.idx + 1]),
                               !.idx = @ + 1]
              ELSE [seg EXCEPT !.pc = "end"]
    /\ UNCHANGED <<WORKFLOWS, JOBS, BRANCH_JOBS, running_jobs, active_users, tasks,
                   instanseg_model, model_lock, model_waiters, outputs,
                   scheduler_lock, unlocked_writes, handles, grid>>

\* the planner's lists: of 6 tiles, of 2 tiles, of 1 tile and of none
Plans ==
    {ExpectedPlan(3, 2, 2, 1), ExpectedPlan(3, 1, 2, 0), ExpectedPlan(2, 2, 3, 1),
     ExpectedPlan(0, 0, 2, 1)}

\* the values of params["max_tiles"]
RawMaxTiles == {None} \cup {Some(m) : m \in (-MaxNegative)..MaxMaxTiles}

InitPlan ==
    /\ Start(EmptyState)
    /\ grid = NoGrid
    /\ \E plan \in Plans, raw \in RawMaxTiles : seg = PlanCall(plan, raw)

NextPlan == PlanStart \/ PlanTile

SpecPlan == InitPlan /\ [][NextPlan]_vars

----------------------------------------------------------------------------
(* app/instanseg_tasks.py: render_cell_visuals lines 156-172, the mask.    *)
(* seg holds the dimensions of the slide (full_w, full_h) and of its       *)
(* coarsest level (lw, lh), the global bboxes of all_cells as              *)
(* <<x_min, y_min, x_max, y_max>>, the number k of cells drawn so far and  *)
(* mask, the set of the pixels <<px, py>> of mask_img that are 255.  The   *)
(* products with the float factors sx = lw / full_w and sy = lh / full_h   *)
(* are taken as exact.                                                     *)

\* lines 165-168: int(v * (low / full)), v >= 0
Scale(v, low, full) == (v * low) \div full

\* ImageDraw.rectangle([(x1, y1), (x2, y2)], fill=255) on an image of
\* lw x lh pixels: Pillow fills the box with both corners included
Rectangle(mask, x1, y1, x2, y2, lw, lh) ==
    mask \cup {p \in (0..(lw - 1)) \X (0..(lh - 1)) :
                  /\ x1 <= p[1] /\ p[1] <= x2
                  /\ y1 <= p[2] /\ p[2] <= y2}

\* lines 156-160: the call starts with an image of zeros
RenderCall(cells, full_w, full_h, lw, lh) ==
    [cells |-> cells, full_w |-> full_w, full_h |-> full_h, lw |-> lw, lh |-> lh,
     mask |-> {}, k |-> 0, pc |-> "draw"]

\* lines 162-172: one turn of the loop over all_cells, or mask_img.save
RenderCell ==
    /\ seg.pc = "draw"
    /\ seg' = IF seg.k < Len(seg.cells)
              THEN LET bx == seg.cells[seg.k + 1]
                       x1 == Scale(bx[1], seg.lw, seg.full_w)
                       y1 == Scale(bx[2], seg.lh, seg.full_h)
                       x2 == Scale(bx[3], seg.lw, seg.full_w)
                       y2 == Scale(bx[4], seg.lh, seg.full_h)
                   IN [seg EXCEPT
                         !.mask = Rectangle(@, x1, y1, x2, y2, seg.lw, seg.lh),
                         !.k = @ + 1]
              ELSE [seg EXCEPT !.pc = "saved"]
    /\ UNCHANGED <<WORKFLOWS, JOBS, BRANCH_JOBS, running_jobs, active_users, tasks,
                   instanseg_model, model_lock, model_waiters, outputs,
                   scheduler_lock, unlocked_writes, handles, grid>>

\* the slides: <<full_w, full_h, lw, lh>>
Slides == {<<4, 4, 4, 4>>, <<4, 4, 2, 2>>, <<3, 2, 3, 2>>}

\* the global bboxes of the cells of a slide: not empty, inside the slide
GlobalBBoxes(full_w, full_h) ==
    {b \in (0..full_w) \X (0..full_h) \X (0..full_w) \X (0..full_h) :
        b[1] < b[3] /\ b[2] < b[4]}

InitMask ==
    /\ Start(EmptyState)
    /\ grid = NoGrid
    /\ \E sl \in Slides :
          \E cells \in {<<>>} \cup SeqsUpTo(GlobalBBoxes(sl[1], sl[2]), MaxCells) :
              seg = RenderCall(cells, sl[1], sl[2], sl[3], sl[4])

NextMask == RenderCell

SpecMask == InitMask /\ [][NextMask]_vars

----------------------------------------------------------------------------
(* The controller with its call of compute_tile_grid followed step by      *)
(* step: SpecTerm starts after three POST /workflows of one single-job     *)
(* branch each, two cell segmentations of two users and one tissue mask.   *)
(* compute_tile_grid is synchronous code of the coroutine: from the call   *)
(* to the return the event loop runs nothing else, neither a scheduler     *)
(* pass nor a handler nor another task.  The steps of the event loop and   *)
(* of the planner are taken with weak fairness, the HTTP requests are not. *)

TermWorkload ==
    <<Sub(1, "cell_segmentation"), Sub(2, "cell_segmentation"),
      Sub(1, "tissue_mask")>>

TermJobs == 1..Len(TermWorkload)

InitTerm == Start(Submit(EmptyState, TermWorkload)) /\ grid = NoGrid /\ seg = NoSeg

\* slide.dimensions of the slides
TermSlides == {<<2, 1>>}

\* the values of params["tile_size"] and params["overlap"]
TermGeometries == {<<2, 0>>, <<2, 1>>, <<1, 1>>, <<1, 2>>}

\* the values of params["max_tiles"]
TermMaxTiles == {None, Some(0), Some(1)}

\* the event loop is free: no coroutine is inside compute_tile_grid
Idle == grid.pc = "none"

\* a task starts and comes to its end or to its first await without a call
\* of compute_tile_grid: a tissue mask, or a slide file that does not exist
ExecuteJobStartTerm(jid) ==
    /\ tasks[jid] = "spawned"
    /\ \E env \in EnvStart :
          /\ JOBS[jid].job_type = "tissue_mask" \/ ~env.wsi_exists
          /\ Commit(execute_job(State, jid, env))

\* execute_job lines 26-31 and run_cell_segmentation lines 192-209: the
\* task starts, opens the slide and calls compute_tile_grid
PlanCallTerm(jid) ==
    /\ tasks[jid] = "spawned"
    /\ JOBS[jid].job_type = "cell_segmentation"
    /\ CommitProgram(Open([State EXCEPT !.JOBS[jid].started_at = TRUE,
                                        !.tasks[jid] = "compute_tile_grid"],
                          jid, "slide"))
    /\ \E sl \in TermSlides, g \in TermGeometries :
          grid' = GridCall(sl[1], sl[2], g[1], g[2])
    /\ seg' = seg

\* run_cell_segmentation lines 209-216: compute_tile_grid has returned; the
\* stretch goes on to the first await
PlanReturnTerm(jid) ==
    /\ tasks[jid] = "compute_tile_grid"
    /\ grid.pc = "return"
    /\ \E env \in EnvStart, raw \in TermMaxTiles :
          /\ env.wsi_exists
          /\ env.n_tiles = 0
          /\ LET tiles == PlanTiles(grid.tiles, MaxTilesParam(raw))
             IN CommitProgram(run_cell_segmentation(
                    State, jid, [env EXCEPT !.n_tiles = Len(tiles)]))
    /\ grid' = NoGrid
    /\ seg' = seg

\* the steps of the event loop that are not HTTP requests, and of the planner
TermStep ==
    \/ Idle /\ SchedulerPass
    \/ Idle /\ \E j \in JobIds : ExecuteJobStartTerm(j)
    \/ Idle /\ \E j \in JobIds : PlanCallTerm(j)
    \/ Idle /\ \E j \in JobIds : ModelInitDone(j)
    \/ Idle /\ \E j \in JobIds : ModelLockAcquired(j)
    \/ Idle /\ \E j \in JobIds : TileDone(j)
    \/ GridOuter
    \/ GridInner
    \/ \E j \in JobIds : PlanReturnTerm(j)

NextTerm ==
    \/ Idle /\ \E j \in JobIds : CancelJob(JOBS[j].user_id, j)
    \/ TermStep

\* Every job takes each of its steps once, a pass changes the state only by
\* admitting a job and the model follows a call of the planner for a bounded
\* number of steps, so only finitely many of these steps change the state:
\* weak fairness of their disjunction is weak fairness of each one.
FairTerm == WF_vars(TermStep)

SpecTerm == InitTerm /\ [][NextTerm]_vars /\ FairTerm

----------------------------------------------------------------------------
(* Properties                                                              *)

Terminal == {"SUCCEEDED", "FAILED", "CANCELLED"}

RunningStatus(jobs) == {j \in 1..Len(jobs) : jobs[j].status = "RUNNING"}

\* the tasks of execute_job that are over, by a return or by an exception
Over == {"returned", "raised"}

\* C1: branch serialization.  In every state each branch has at most one
\* RUNNING job, and in every step a job of a branch that becomes RUNNING has
\* only SUCCEEDED, FAILED or CANCELLED jobs before it in the branch, before
\* and after the step.
C1_BranchSerialization ==
    /\ [](\A b \in 1..Len(BRANCH_JOBS) :
            Cardinality({i \in 1..Len(BRANCH_JOBS[b].job_ids) :
                JOBS[BRANCH_JOBS[b].job_ids[i]].status = "RUNNING"}) <= 1)
    /\ [][\A b \in 1..Len(BRANCH_JOBS) :
            LET ids == BRANCH_JOBS[b].job_ids
            IN \A k \in 1..Len(ids) :
                (JOBS[ids[k]].status # "RUNNING" /\ JOBS'[ids[k]].status = "RUNNING")
                => \A i \in 1..(k - 1) :
                      /\ JOBS[ids[i]].status \in Terminal
                      /\ JOBS'[ids[i]].status \in Terminal]_vars

\* C1 witness: the second job of a branch runs after the first one ended
C1_Witness ==
    \E b \in 1..Len(BRANCH_JOBS) :
        LET ids == BRANCH_JOBS[b].job_ids
        IN /\ Len(ids) >= 2
           /\ JOBS[ids[1]].status \in {"SUCCEEDED", "FAILED"}
           /\ JOBS[ids[2]].status = "RUNNING"

\* C2: worker cap.  running_jobs never holds more than MAX_WORKERS ids, and
\* no more than MAX_WORKERS jobs have status RUNNING.
C2_WorkerCap ==
    /\ Cardinality(running_jobs) <= MAX_WORKERS
    /\ Cardinality(RunningStatus(JOBS)) <= MAX_WORKERS

\* C2 witness: four jobs run and a fifth, of a user who is active, is a
\* candidate that only the worker cap keeps PENDING
C2_Witness ==
    /\ Cardinality(running_jobs) = MAX_WORKERS
    /\ Cardinality(RunningStatus(JOBS)) = MAX_WORKERS
    /\ \E j \in JobIds :
          /\ JOBS[j].status = "PENDING"
          /\ JOBS[j].user_id \in active_users
          /\ \E i \in 1..Len(first_runnable_job_ids_per_branch(State)) :
                first_runnable_job_ids_per_branch(State)[i] = j

\* C3: active-user cap.  active_users never holds more than
\* MAX_ACTIVE_USERS users; and a pass made in any state admits every
\* candidate whose user is active before the pass unless the workers are
\* full after it, adding no user for it, also with MAX_ACTIVE_USERS users
\* active.
C3_ActiveUserCap ==
    /\ Cardinality(active_users) <= MAX_ACTIVE_USERS
    /\ LET after == schedule_once(State)
           candidates == first_runnable_job_ids_per_branch(State)
       IN /\ Cardinality(after.active_users) <= MAX_ACTIVE_USERS
          /\ \A i \in 1..Len(candidates) :
                LET j == candidates[i]
                IN JOBS[j].user_id \in active_users
                   => \/ /\ after.JOBS[j].status = "RUNNING"
                         /\ j \in after.running_jobs
                      \/ Cardinality(after.running_jobs) >= MAX_WORKERS
          /\ (\A i \in 1..Len(candidates) : JOBS[candidates[i]].user_id \in active_users)
                => after.active_users = active_users

\* C3 witness: three users are active, the job of a fourth user stays
\* PENDING and a job behind it in the order, of an active user, has been
\* admitted as a second job of that user
C3_Witness ==
    /\ Cardinality(active_users) = MAX_ACTIVE_USERS
    /\ \E j, k, m \in JobIds :
          /\ j < k
          /\ JOBS[j].status = "PENDING"
          /\ JOBS[j].user_id \notin active_users
          /\ tasks[k] = "spawned"
          /\ m # k
          /\ JOBS[m].status = "RUNNING"
          /\ JOBS[m].user_id = JOBS[k].user_id

LegalTransitions ==
    {<<"PENDING", "RUNNING">>, <<"PENDING", "CANCELLED">>,
     <<"RUNNING", "SUCCEEDED">>, <<"RUNNING", "FAILED">>}

\* C4: legal transitions and terminal finality.  Every step changes the
\* status of a job only along PENDING->RUNNING, PENDING->CANCELLED,
\* RUNNING->SUCCEEDED, RUNNING->FAILED; a SUCCEEDED, FAILED or CANCELLED job
\* keeps its status, and a job that had a controller task is not started
\* again.
C4_LegalTransitions ==
    [][\A j \in JobIds :
          /\ JOBS'[j].status # JOBS[j].status
                => <<JOBS[j].status, JOBS'[j].status>> \in LegalTransitions
          /\ JOBS[j].status \in Terminal => JOBS'[j].status = JOBS[j].status
          /\ tasks[j] # "none" => tasks'[j] # "spawned" \/ tasks[j] = "spawned"]_vars

\* C4 witness: one job was cancelled and another one ran and failed
C4_Witness ==
    \E j, k \in JobIds :
        /\ JOBS[j].status = "CANCELLED"
        /\ JOBS[k].status = "FAILED"
        /\ tasks[k] \in Over

\* C5: guaranteed slot release.  Once the controller task of a job is over,
\* the job is not in running_jobs, and its user is in active_users only if
\* another job of the user is in running_jobs.
C5_SlotReleased ==
    \A j \in JobIds :
        tasks[j] \in Over
        => /\ j \notin running_jobs
           /\ JOBS[j].user_id \in active_users
                 => \E k \in running_jobs \ {j} : JOBS[k].user_id = JOBS[j].user_id

Messages == {"WSI not found", "AnalyzerFailure", "PersistenceFailure"}

\* the jobs before job j in its branch: a branch lists its jobs in the
\* order of their creation
Before(j) ==
    {i \in 1..(j - 1) : /\ JOBS[i].workflow_id = JOBS[j].workflow_id
                        /\ JOBS[i].branch_id = JOBS[j].branch_id}

\* C6: failure isolation.  A FAILED job was started, has its error set to
\* the message of the exception, and no other job has an error; and a pass
\* made in any state admits every PENDING job that has a FAILED job and no
\* PENDING or RUNNING job before it in its branch, unless one of the two
\* caps keeps it out.
C6_FailureIsolation ==
    /\ \A j \in JobIds :
          /\ JOBS[j].status = "FAILED"
                => JOBS[j].error \in Messages /\ JOBS[j].started_at
          /\ JOBS[j].status # "FAILED" => JOBS[j].error = "None"
    /\ LET after == schedule_once(State)
       IN \A j \in JobIds :
             (/\ JOBS[j].status = "PENDING"
              /\ \E i \in Before(j) : JOBS[i].status = "FAILED"
              /\ \A i \in Before(j) : JOBS[i].status \in Terminal)
             => \/ after.JOBS[j].status = "RUNNING"
                \/ Cardinality(after.running_jobs) >= MAX_WORKERS
                \/ /\ JOBS[j].user_id \notin after.active_users
                   /\ Cardinality(after.active_users) >= MAX_ACTIVE_USERS

\* C6 witness: the first job of a branch failed because its slide file is
\* missing, and the job behind it in the branch has been admitted
C6_Witness ==
    \E b \in 1..Len(BRANCH_JOBS) :
        LET ids == BRANCH_JOBS[b].job_ids
        IN /\ Len(ids) >= 2
           /\ JOBS[ids[1]].status = "FAILED"
           /\ JOBS[ids[1]].error = "WSI not found"
           /\ JOBS[ids[2]].status = "RUNNING"

\* C7: cancel_pending_job by the owner of a job.  On a PENDING job it
\* answers 200 and leaves the job CANCELLED with progress, tiles_done and
\* tiles_total 0, running_jobs and active_users as they were; on a job of any
\* other status it raises ValueError (400) and changes nothing.  A CANCELLED
\* job never ran: it has no controller task, no started_at, and is not in
\* running_jobs.
C7_CancelPending ==
    /\ \A j \in JobIds :
          LET r == cancel_pending_job(State, JOBS[j].user_id, j)
              resp == cancel_job_route(State, JOBS[j].user_id, j)
          IN /\ JOBS[j].status = "PENDING"
                   => /\ r.exc = "None"
                      /\ resp.code = 200
                      /\ r.st.JOBS[j].status = "CANCELLED"
                      /\ r.st.JOBS[j].progress = ZeroProgress
                      /\ r.st.JOBS[j].tiles_done = 0
                      /\ r.st.JOBS[j].tiles_total = 0
                      /\ r.st.running_jobs = running_jobs
                      /\ r.st.active_users = active_users
                      /\ \A k \in JobIds \ {j} : r.st.JOBS[k] = JOBS[k]
             /\ JOBS[j].status # "PENDING"
                   => /\ r.exc = "ValueError"
                      /\ resp.code = 400
                      /\ r.st = State
    /\ \A j \in JobIds :
          JOBS[j].status = "CANCELLED"
          => /\ tasks[j] = "none"
             /\ ~JOBS[j].started_at
             /\ JOBS[j].progress = ZeroProgress
             /\ JOBS[j].tiles_done = 0
             /\ JOBS[j].tiles_total = 0
             /\ j \notin running_jobs

\* C7 witness: one job has been cancelled, and the cancel of a RUNNING job
\* that has a tile plan is refused
C7_Witness ==
    \E j, k \in JobIds :
        /\ JOBS[j].status = "CANCELLED"
        /\ JOBS[k].status = "RUNNING"
        /\ JOBS[k].tiles_total > 0
        /\ cancel_job_route(State, JOBS[k].user_id, k).code = 400

\* C8: ownership isolation.  For a user u and a job j of another user, each
\* handler that names j or the workflow of j answers u with 404, the answer
\* it gives for an id that does not exist, and the cancel changes nothing.
C8_OwnershipIsolation ==
    \A u \in Users : \A j \in JobIds :
        JOBS[j].user_id # u
        => LET w == JOBS[j].workflow_id
               no_job == Len(JOBS) + 1
               no_wf == Len(WORKFLOWS) + 1
           IN /\ get_job_route(State, u, j).code = 404
              /\ get_job_route(State, u, j) = get_job_route(State, u, no_job)
              /\ list_jobs_for_workflow_route(State, u, w).code = 404
              /\ list_jobs_for_workflow_route(State, u, w)
                    = list_jobs_for_workflow_route(State, u, no_wf)
              /\ get_workflow_route(State, u, w).code = 404
              /\ get_workflow_route(State, u, w) = get_workflow_route(State, u, no_wf)
              /\ cancel_job_route(State, u, j).code = 404
              /\ cancel_job_route(State, u, j) = cancel_job_route(State, u, no_job)
              /\ cancel_pending_job(State, u, j).st = State
              /\ get_job_result(State, u, j).code = 404
              /\ get_job_result(State, u, j) = get_job_result(State, u, no_job)
              /\ get_mask(State, u, j).code = 404
              /\ get_overlay(State, u, j).code = 404

\* C9: RunningSet consistency.  running_jobs is the set of the jobs whose
\* status is RUNNING.
C9_RunningSetConsistency == running_jobs = RunningStatus(JOBS)

\* C10: ActiveUserSet consistency.  active_users is the set of the users of
\* the jobs in running_jobs.
C10_ActiveUsersConsistency ==
    active_users = {JOBS[j].user_id : j \in running_jobs}

\* C11: no starvation.  With the scheduler loop making its passes and the
\* running jobs coming to their end, every job that is PENDING becomes
\* RUNNING or CANCELLED: since no job returns to PENDING (C4), that is to say
\* that at some time no job is PENDING.
C11_NoStarvation == <>(\A j \in LiveJobs : JOBS[j].status # "PENDING")

\* the candidates of a pass made in the current state
Candidates ==
    {first_runnable_job_ids_per_branch(State)[i] :
        i \in 1..Len(first_runnable_job_ids_per_branch(State))}

\* C12: finished predecessors do not block.  A PENDING job whose
\* predecessors in its branch are all SUCCEEDED, FAILED or CANCELLED, in any
\* mix, is a candidate of a pass made in the current state; a job with a
\* PENDING or RUNNING predecessor is not; and a CANCELLED job keeps progress
\* 0 and tiles_done 0.
C12_FinishedDoNotBlock ==
    \A j \in JobIds :
        /\ (JOBS[j].status = "PENDING" /\ \A i \in Before(j) : JOBS[i].status \in Terminal)
              => j \in Candidates
        /\ (\E i \in Before(j) : JOBS[i].status \notin Terminal) => j \notin Candidates
        /\ JOBS[j].status = "CANCELLED"
              => JOBS[j].progress = ZeroProgress /\ JOBS[j].tiles_done = 0

\* C12 witness: in a branch of three jobs the first one FAILED, the second
\* one is CANCELLED, and the third one is a candidate
C12_Witness ==
    \E b \in 1..Len(BRANCH_JOBS) :
        LET ids == BRANCH_JOBS[b].job_ids
        IN /\ Len(ids) = 3
           /\ JOBS[ids[1]].status = "FAILED"
           /\ JOBS[ids[2]].status = "CANCELLED"
           /\ JOBS[ids[3]].status = "PENDING"
           /\ ids[3] \in Candidates

\* the payloads that have a branch of zero jobs
InvalidPayloads == {p \in Payloads : \E i \in 1..Len(p) : p[i].jobs = <<>>}

\* C13: create_workflow rejects an invalid spec.  A step that is a call of
\* create_workflow with a payload that has a branch of zero jobs leaves
\* WORKFLOWS, JOBS and BRANCH_JOBS as they were: no workflow, job or branch
\* entry is created.
C13_RejectsInvalidSpec ==
    [][\A u \in Users, p \in InvalidPayloads :
          LET after == create_workflow(State, u, p)
          IN (/\ WORKFLOWS' = after.WORKFLOWS
              /\ JOBS' = after.JOBS
              /\ BRANCH_JOBS' = after.BRANCH_JOBS)
             => UNCHANGED <<WORKFLOWS, JOBS, BRANCH_JOBS>>]_vars

\* the call of compute_tile_grid has returned its list, on valid geometry
GridReturned ==
    /\ grid.pc = "return"
    /\ ValidGeometry(grid.tile_size, grid.overlap)

\* C14: tile planner coverage.  On valid geometry every returned tile
\* <<x, y, w, h>> has w >= 1, h >= 1, x >= 0, y >= 0, x + w <= width and
\* y + h <= height, and every pixel of [0,width) x [0,height) lies in some
\* tile.
C14_TileCoverage ==
    GridReturned
    => /\ \A i \in 1..Len(grid.tiles) :
             LET t == grid.tiles[i]
             IN /\ t[3] >= 1 /\ t[4] >= 1 /\ t[1] >= 0 /\ t[2] >= 0
                /\ t[1] + t[3] <= grid.width
                /\ t[2] + t[4] <= grid.height
       /\ \A px \in 0..(grid.width - 1), py \in 0..(grid.height - 1) :
             \E i \in 1..Len(grid.tiles) :
                 LET t == grid.tiles[i]
                 IN /\ t[1] <= px /\ px < t[1] + t[3]
                    /\ t[2] <= py /\ py < t[2] + t[4]

\* C14 witness: a plan with overlap, of several rows and columns, whose last
\* tile is clipped on both axes
C14_Witness ==
    /\ GridReturned
    /\ grid.overlap > 0
    /\ Len(grid.tiles) >= 4
    /\ grid.tiles[Len(grid.tiles)][3] < grid.tile_size
    /\ grid.tiles[Len(grid.tiles)][4] < grid.tile_size
    /\ grid.tiles[Len(grid.tiles)][1] > 0
    /\ grid.tiles[Len(grid.tiles)][2] > 0

\* plan(100, 40, 30, 10)
PlanS1 ==
    <<<<0, 0, 30, 30>>, <<20, 0, 30, 30>>, <<40, 0, 30, 30>>, <<60, 0, 30, 30>>,
      <<80, 0, 20, 30>>,
      <<0, 20, 30, 20>>, <<20, 20, 30, 20>>, <<40, 20, 30, 20>>, <<60, 20, 30, 20>>,
      <<80, 20, 20, 20>>>>

\* C15: tile planner output.  On valid geometry the returned list is the
\* row-major walk with step tile_size - overlap and clipped edge tiles, a
\* function of the four arguments; plan(100, 40, 30, 10) is the ten tiles of
\* PlanS1.
C15_TilePlan ==
    GridReturned
    => /\ grid.tiles = ExpectedPlan(grid.width, grid.height, grid.tile_size, grid.overlap)
       /\ <<grid.width, grid.height, grid.tile_size, grid.overlap>> = <<100, 40, 30, 10>>
             => grid.tiles = PlanS1

\* C15 witness: plan(100, 40, 30, 10) has returned its ten tiles
C15_Witness ==
    /\ GridReturned
    /\ <<grid.width, grid.height, grid.tile_size, grid.overlap>> = <<100, 40, 30, 10>>
    /\ Len(grid.tiles) = 10

\* C16: the tile planner rejects invalid geometry.  A call with
\* tile_size <= overlap, overlap < 0 or tile_size < 1 on a non-empty raster
\* produces no tile and returns no list.
C16_RejectsInvalidGeometry ==
    (/\ grid.pc # "none"
     /\ ~ValidGeometry(grid.tile_size, grid.overlap)
     /\ grid.width >= 1 /\ grid.height >= 1)
    => grid.tiles = <<>> /\ grid.pc # "return"

\* p <= q for two fractions
FracLeq(p, q) == p[1] * q[2] <= q[1] * p[2]

\* C17: progress monotonicity and closure.  tiles_done of a job never
\* decreases; progress lies in [0,1] and does not decrease while the job is
\* RUNNING; and a job with progress 1.0 is SUCCEEDED, or is RUNNING and has
\* SUCCEEDED as its next status: it is never FAILED.
C17_ProgressClosure ==
    /\ [](\A j \in JobIds :
             /\ FracLeq(ZeroProgress, JOBS[j].progress)
             /\ FracLeq(JOBS[j].progress, FullProgress)
             /\ JOBS[j].progress = FullProgress
                   => JOBS[j].status \in {"RUNNING", "SUCCEEDED"})
    /\ [][\A j \in JobIds :
             /\ JOBS'[j].tiles_done >= JOBS[j].tiles_done
             /\ (JOBS[j].status = "RUNNING" /\ JOBS'[j].status = "RUNNING")
                   => FracLeq(JOBS[j].progress, JOBS'[j].progress)
             /\ (JOBS[j].progress = FullProgress /\ JOBS'[j].status # JOBS[j].status)
                   => JOBS'[j].status = "SUCCEEDED"]_vars

\* the number of regions of the tiles before tile i (i counted from 1)
RECURSIVE RegionsBefore(_, _)
RegionsBefore(props, i) ==
    IF i <= 1 THEN 0 ELSE Len(props[i - 1]) + RegionsBefore(props, i - 1)

\* C18: cell coordinate translation.  After any number of turns of the tile
\* loop, all_cells holds one record for every region of every processed
\* tile, in tile order and in the order of the regions, none dropped or
\* merged: the region <<minr, minc, maxr, maxc>> of the tile <<x, y, w, h>>
\* at index i gives x_min = x + minc, y_min = y + minr, x_max = x + maxc,
\* y_max = y + maxr, tile_origin = <<x, y>> and tile_index = i.
C18_CellTranslation ==
    seg.pc # "none"
    => /\ Len(seg.props) = seg.idx
       /\ Len(seg.all_cells) = RegionsBefore(seg.props, seg.idx + 1)
       /\ \A i \in 1..seg.idx : \A k \in 1..Len(seg.props[i]) :
             LET cell == seg.all_cells[RegionsBefore(seg.props, i) + k]
                 t == seg.tiles[i]
                 r == seg.props[i][k]
             IN /\ cell.bbox.x_min = t[1] + r[2]
                /\ cell.bbox.y_min = t[2] + r[1]
                /\ cell.bbox.x_max = t[1] + r[4]
                /\ cell.bbox.y_max = t[2] + r[3]
                /\ cell.tile_origin = <<t[1], t[2]>>
                /\ cell.tile_index = i - 1

\* C18 witness: the loop is over two tiles, the second one away from the
\* origin with the same region found twice, the first one with a region that
\* is not square and not at the corner of the tile
C18_Witness ==
    /\ seg.pc = "done"
    /\ seg.idx = 2
    /\ seg.tiles[2][2] > 0
    /\ Len(seg.props[2]) = 2
    /\ seg.props[2][1] = seg.props[2][2]
    /\ \E k \in 1..Len(seg.props[1]) :
          LET r == seg.props[1][k]
          IN r[1] > 0 /\ r[3] - r[1] # r[4] - r[2]

\* C19: lock discipline.  No write of a job status, of running_jobs or of
\* active_users by schedule_once, execute_job or cancel_pending_job has been
\* made with scheduler_lock not held, and scheduler_lock is not held at any
\* suspension point (every state between two steps is one).
C19_LockDiscipline ==
    /\ unlocked_writes = {}
    /\ ~scheduler_lock

\* the candidates of a pass made in state st
CandidatesOf(st) ==
    {first_runnable_job_ids_per_branch(st)[i] :
        i \in 1..Len(first_runnable_job_ids_per_branch(st))}

\* C20: work-conserving pass.  When a pass made in any state ends, either
\* running_jobs holds MAX_WORKERS jobs, or every job that is still the first
\* PENDING job of its branch with no PENDING or RUNNING job before it is of
\* a user outside active_users while active_users holds MAX_ACTIVE_USERS
\* users.  So one pass over 6 single-job branches of one user leaves 4
\* RUNNING and 2 PENDING, one pass over 5 single-job workflows of 5 users
\* leaves 3 RUNNING and 2 PENDING, and while those 3 are RUNNING a pass
\* admits none of the other 2.
C20_WorkConservingPass ==
    LET after == scheduler_loop(State)
        statuses(st, status) == {j \in 1..Len(st.JOBS) : st.JOBS[j].status = status}
    IN /\ \/ Cardinality(after.running_jobs) = MAX_WORKERS
          \/ \A j \in CandidatesOf(after) :
                /\ after.JOBS[j].user_id \notin after.active_users
                /\ Cardinality(after.active_users) = MAX_ACTIVE_USERS
       /\ State = Submit(EmptyState, SixOfOneUser)
             => /\ Cardinality(statuses(after, "RUNNING")) = 4
                /\ Cardinality(statuses(after, "PENDING")) = 2
       /\ State = Submit(EmptyState, FiveUsers)
             => /\ Cardinality(statuses(after, "RUNNING")) = 3
                /\ Cardinality(statuses(after, "PENDING")) = 2
       /\ (/\ Len(JOBS) = 5
           /\ \A j \in JobIds : JOBS[j].user_id = j
           /\ Cardinality(statuses(State, "RUNNING")) = 3)
             => after.JOBS = JOBS

\* C20 witness: of 5 single-job workflows of 5 users, 3 are RUNNING and the
\* other 2 are PENDING candidates of users outside active_users, with a
\* worker left free
C20_Witness ==
    /\ Len(JOBS) = 5
    /\ \A j \in JobIds : JOBS[j].user_id = j
    /\ Cardinality(RunningStatus(JOBS)) = 3
    /\ Cardinality(running_jobs) = 3
    /\ Cardinality(active_users) = MAX_ACTIVE_USERS
    /\ Cardinality({j \in Candidates : JOBS[j].user_id \notin active_users}) = 2

\* C21: started_at is set at admission.  In every state a job whose status
\* is RUNNING, SUCCEEDED or FAILED has started_at set, and a job whose status
\* is PENDING or CANCELLED has started_at unset.
C21_StartedAtAdmission ==
    \A j \in JobIds :
        /\ JOBS[j].status \in {"RUNNING", "SUCCEEDED", "FAILED"} => JOBS[j].started_at
        /\ JOBS[j].status \in {"PENDING", "CANCELLED"} => ~JOBS[j].started_at

\* C22: progress accounting.  In every state every job has
\* 0 <= tiles_done <= tiles_total; a RUNNING job has progress
\* tiles_done / tiles_total when tiles_total > 0 and progress 0 when
\* tiles_total = 0; a SUCCEEDED job has progress 1.0, whatever its
\* tiles_total; and tiles_done changes only when a call of _segment_tile has
\* returned, and then grows by exactly 1.
C22_ProgressAccounting ==
    /\ [](\A j \in JobIds :
             /\ 0 <= JOBS[j].tiles_done
             /\ JOBS[j].tiles_done <= JOBS[j].tiles_total
             /\ JOBS[j].status = "RUNNING"
                   => JOBS[j].progress =
                         IF JOBS[j].tiles_total > 0
                         THEN Frac(JOBS[j].tiles_done, JOBS[j].tiles_total)
                         ELSE ZeroProgress
             /\ JOBS[j].status = "SUCCEEDED" => JOBS[j].progress = FullProgress)
    /\ [][\A j \in JobIds :
             /\ JOBS'[j].tiles_done # JOBS[j].tiles_done
                   => /\ tasks[j] = "await_tile"
                      /\ JOBS'[j].tiles_done = JOBS[j].tiles_done + 1
             /\ (/\ tasks[j] = "await_tile"
                 /\ JOBS'[j] # JOBS[j]
                 /\ JOBS'[j].error # "AnalyzerFailure")
                   => JOBS'[j].tiles_done = JOBS[j].tiles_done + 1]_vars

\* C22 witness: a RUNNING job has done 2 of its 3 tiles and has progress
\* 2/3, and a job with no tile at all is SUCCEEDED with progress 1.0
C22_Witness ==
    /\ \E j \in JobIds :
          /\ JOBS[j].status = "RUNNING"
          /\ JOBS[j].tiles_total = 3
          /\ JOBS[j].tiles_done = 2
          /\ JOBS[j].progress = <<2, 3>>
    /\ \E j \in JobIds :
          /\ JOBS[j].status = "SUCCEEDED"
          /\ JOBS[j].tiles_total = 0
          /\ JOBS[j].progress = FullProgress

\* C23: max_tiles truncation.  With params["max_tiles"] an integer m >= 0
\* the list tiles is the first min(m, |plan|) tiles of the planner's list
\* and tiles_total = min(m, |plan|); with max_tiles not set, tiles is the
\* whole list and tiles_total = |plan|; and the loop gives the tiles to
\* _segment_tile in index order, all of them when it ends.
C23_MaxTilesTruncation ==
    seg.pc \in {"loop", "end"}
    => /\ (seg.raw # None /\ seg.raw[1] >= 0)
             => /\ seg.tiles = SubSeq(seg.plan, 1, Min(seg.raw[1], Len(seg.plan)))
                /\ seg.tiles_total = Min(seg.raw[1], Len(seg.plan))
       /\ seg.raw = None
             => seg.tiles = seg.plan /\ seg.tiles_total = Len(seg.plan)
       /\ seg.processed = SubSeq(seg.tiles, 1, seg.idx)
       /\ seg.pc = "end" => seg.processed = seg.tiles

\* the tasks that are inside the model constructor, run by asyncio.to_thread
Initializing == {j \in JobIds : tasks[j] = "await_init"}

\* C24: analyzer singleton.  At most one task is inside the model
\* constructor at a time, it holds _model_lock, and none is once the model
\* is set, so that the constructor returns an instance at most once; the
\* instance, once set, is never replaced and a task is in the tile loop only
\* with the instance set, so all callers get the same one; a task that
\* calls get_instanseg_model while another one holds the lock waits; and a
\* scheduler pass (a step that admits a job) leaves the model and its lock
\* alone.
C24_AnalyzerSingleton ==
    /\ [](/\ Cardinality(Initializing) <= 1
          /\ \A j \in Initializing : model_lock = j /\ ~instanseg_model
          /\ \A j \in JobIds :
                /\ tasks[j] = "await_tile" => instanseg_model
                /\ tasks[j] = "await_model_lock"
                      => \E i \in 1..Len(model_waiters) : model_waiters[i] = j)
    /\ [][/\ instanseg_model => instanseg_model'
          /\ \A j \in JobIds :
                (tasks[j] = "spawned" /\ tasks'[j] = "await_init")
                   => model_lock = 0 /\ model_waiters = <<>>
          /\ (\E j \in JobIds : JOBS[j].status = "PENDING" /\ JOBS'[j].status = "RUNNING")
                => /\ UNCHANGED <<instanseg_model, model_lock, model_waiters>>
                   /\ \A j \in JobIds : tasks'[j] \in {tasks[j], "spawned"}]_vars

\* C24 witness: a task is inside the constructor and another one, which
\* called get_instanseg_model meanwhile, waits for the lock
C24_Witness ==
    \E i, j \in JobIds :
        /\ tasks[i] = "await_init"
        /\ model_lock = i
        /\ tasks[j] = "await_model_lock"
        /\ model_waiters = <<j>>
        /\ ~instanseg_model

\* C25: mask rectangle convention.  In the saved mask, whose pixels are
\* those of the coarsest level, a pixel <<px, py>> is 255 if and only if
\* some cell has x1 <= px < x2 and y1 <= py < y2, its low-res box
\* <<x1, y1, x2, y2>> being the global bbox multiplied by the scale factors.
C25_MaskRectangles ==
    seg.pc = "saved"
    => /\ seg.mask \subseteq (0..(seg.lw - 1)) \X (0..(seg.lh - 1))
       /\ \A p \in (0..(seg.lw - 1)) \X (0..(seg.lh - 1)) :
             p \in seg.mask
             <=> \E i \in 1..Len(seg.cells) :
                    LET bx == seg.cells[i]
                    IN /\ Scale(bx[1], seg.lw, seg.full_w) <= p[1]
                       /\ p[1] < Scale(bx[3], seg.lw, seg.full_w)
                       /\ Scale(bx[2], seg.lh, seg.full_h) <= p[2]
                       /\ p[2] < Scale(bx[4], seg.lh, seg.full_h)

\* C26: raster handle lifecycle.  A job that is SUCCEEDED or FAILED has no
\* OpenSlide object open, whatever the path it took, and only a RUNNING job
\* has one.
C26_HandlesClosed ==
    \A h \in handles : JOBS[h[1]].status = "RUNNING"

\* C27: job termination.  With the event loop taking its steps, every
\* admitted job comes to SUCCEEDED or FAILED, whatever its parameters: since
\* a RUNNING job leaves RUNNING only for one of the two (C6), that is to say
\* that from some time on no job is RUNNING.
C27_JobTermination == <>[](\A j \in TermJobs : JOBS[j].status # "RUNNING")

====
